---------------------------- MODULE Spec2Model ----------------------------
(***************************************************************************)
(* A model of the KBO hitter / pitcher pipeline:                           *)
(*   01_crawl_kbo.py, 03_crawl_pitcher.py  (collectors and qualifiers)     *)
(*   02_analysis.py, 04_pitcher_analysis.py (metric derivation, reports)   *)
(*                                                                         *)
(* Numbers.  pandas / numpy columns are IEEE doubles.  A value is modelled *)
(* as an exact rational n/d, or NaN, or +inf / -inf; rounding is not       *)
(* modelled, the special values are.  The literals 0.33, 0.67, 3.20, 0.89  *)
(* ... are the rationals 33/100, 67/100, 320/100, 89/100 ...               *)
(*                                                                         *)
(* Text.  A cell text is a sequence of one-character strings.              *)
(***************************************************************************)
EXTENDS Integers, Sequences, FiniteSets, TLC

VARIABLES
    script,        \* which program of the repository is running
    pc,            \* its position
    ip_str,        \* parse_ip: the argument
    ip_ret,        \* parse_ip: the outcome (a value, or ValueError raised)
    site,          \* collectors: year -> the rows the site's table shows
    year_i,        \* collectors: index into YEARS of main's loop
    all_dfs,       \* collectors: main's list of per-season tables
    df_all,        \* collectors: the concatenated table; 04: the derived table
    df_qualified,  \* collectors: the qualified table
    summary,       \* collectors: year -> the subset the summary prints for it
    pages,         \* crawl_all_pages: the result pages of the site, in order
    page_num,      \* crawl_all_pages: the loop variable
    page_records,  \* crawl_all_pages: its list records, gathered so far
    clicked,       \* crawl_all_pages: the page buttons clicked, in order
    parsed,        \* crawl_all_pages: the pages parse_table was run on, in order
    csv,           \* analyses: the table read from the qualified csv
    df,            \* 02: the hitter table with the derived columns
    ops_sorted,    \* 02: df.sort_values('OPS', ascending=False)
    top_ops,       \* 02: the row printed as OPS leader
    df_2024,       \* 04: season table
    df_2025,       \* 04: season table
    common,        \* 04: names present in both seasons
    fip_change,    \* 04: the sorted series of FIP deltas
    colors         \* 04: the colour (legend class) of each bar of fip_change

vars == << script, pc, ip_str, ip_ret, site, year_i, all_dfs, df_all,
           df_qualified, summary, pages, page_num, page_records, clicked, parsed,
           csv, df, ops_sorted, top_ops, df_2024, df_2025,
           common, fip_change, colors >>

parseVars   == << ip_str, ip_ret >>
pageVars    == << pages, page_num, page_records, clicked, parsed >>
crawlVars   == << site, year_i, all_dfs, df_qualified, summary, pageVars >>
hitterVars  == << df, ops_sorted, top_ops >>
pitcherVars == << df_2024, df_2025, common, fip_change, colors >>

None == "None"

-----------------------------------------------------------------------------
(* Bounds of the model *)

\* longest innings text drawn for parse_ip
MaxLen == 5
\* largest counting stat of a single record (SV, HLD, HR, BB, HBP, SO, ...)
MaxStat == 1
\* most games of a single pitcher record
MaxG == 2
\* most whole innings of a single pitcher record
MaxWhole == 8
\* most rows the site shows for one season
MaxRows == 2
\* most result pages the site has for one season
MaxPages == 6
\* most home runs allowed of a pitcher row in the season tables
MaxHR == 1

-----------------------------------------------------------------------------
(* IEEE-like values: exact rationals, NaN, +inf, -inf *)

Abs(x) == IF x < 0 THEN -x ELSE x

Sign(x) == IF x < 0 THEN -1 ELSE IF x > 0 THEN 1 ELSE 0

RECURSIVE GCD(_, _)
GCD(a, b) == IF b = 0 THEN a ELSE GCD(b, a % b)

\* the rational n/d (d # 0) in lowest terms with a positive denominator
Rat(n, d) ==
    LET g == GCD(Abs(n), Abs(d))
        s == Sign(d)
    IN  [k |-> "num", n |-> (s * n) \div g, d |-> Abs(d) \div g]

Num(n) == Rat(n, 1)

NaN == [k |-> "nan", n |-> 0, d |-> 1]

Inf(s) == [k |-> "inf", n |-> s, d |-> 1]

IsNum(v) == v.k = "num"
IsNaN(v) == v.k = "nan"
IsInf(v) == v.k = "inf"

\* sign of a value that is not NaN
VSign(v) == Sign(v.n)

\* a / b as numpy divides two float64 (no exception: inf and NaN instead)
FDiv(a, b) ==
    IF IsNaN(a) \/ IsNaN(b) THEN NaN
    ELSE IF IsInf(a) THEN
        (IF IsInf(b) THEN NaN
         ELSE Inf(IF VSign(b) < 0 THEN -a.n ELSE a.n))
    ELSE IF IsInf(b) THEN Num(0)
    ELSE IF b.n = 0 THEN
        (IF a.n = 0 THEN NaN ELSE Inf(Sign(a.n)))
    ELSE Rat(a.n * b.d, a.d * b.n)

FAdd(a, b) ==
    IF IsNaN(a) \/ IsNaN(b) THEN NaN
    ELSE IF IsInf(a) THEN
        (IF IsInf(b) /\ b.n # a.n THEN NaN ELSE a)
    ELSE IF IsInf(b) THEN b
    ELSE Rat(a.n * b.d + b.n * a.d, a.d * b.d)

FNeg(a) == IF IsNaN(a) THEN NaN ELSE [a EXCEPT !.n = -a.n]

FSub(a, b) == FAdd(a, FNeg(b))

FMul(a, b) ==
    IF IsNaN(a) \/ IsNaN(b) THEN NaN
    ELSE IF IsInf(a) \/ IsInf(b) THEN
        (IF VSign(a) * VSign(b) = 0 THEN NaN ELSE Inf(VSign(a) * VSign(b)))
    ELSE Rat(a.n * b.n, a.d * b.d)

\* a < b; every comparison with NaN is False
FLt(a, b) ==
    IF IsNaN(a) \/ IsNaN(b) THEN FALSE
    ELSE IF IsInf(a) THEN a.n < 0 /\ ~(IsInf(b) /\ b.n < 0)
    ELSE IF IsInf(b) THEN b.n > 0
    ELSE a.n * b.d < b.n * a.d

FEq(a, b) == ~IsNaN(a) /\ ~IsNaN(b) /\ a = b

FLe(a, b) == FLt(a, b) \/ FEq(a, b)
FGe(a, b) == FLe(b, a)
FGt(a, b) == FLt(b, a)

-----------------------------------------------------------------------------
(* Text *)

Digits == {"0", "1", "2", "3", "4", "5", "6", "7", "8", "9"}
Alphabet == {"0", "1", "2", "3", "/", " ", "x"}

Texts == UNION {[1..n -> Alphabet] : n \in 0..MaxLen}

DigitVal(c) ==
    CASE c = "0" -> 0 [] c = "1" -> 1 [] c = "2" -> 2 [] c = "3" -> 3 [] c = "4" -> 4
      [] c = "5" -> 5 [] c = "6" -> 6 [] c = "7" -> 7 [] c = "8" -> 8 [] c = "9" -> 9

\* str.strip(): leading and trailing whitespace removed
RECURSIVE LStrip(_)
LStrip(s) == IF s # << >> /\ Head(s) = " " THEN LStrip(Tail(s)) ELSE s

RECURSIVE RStrip(_)
RStrip(s) ==
    IF s # << >> /\ s[Len(s)] = " " THEN RStrip(SubSeq(s, 1, Len(s) - 1)) ELSE s

Strip(s) == RStrip(LStrip(s))

\* ' ' in s
HasSpace(s) == \E i \in 1..Len(s) : s[i] = " "

\* str.split(): the maximal runs of non-whitespace, in order
RECURSIVE SplitFrom(_, _, _)
SplitFrom(s, cur, acc) ==
    IF s = << >> THEN (IF cur = << >> THEN acc ELSE Append(acc, cur))
    ELSE IF Head(s) = " "
         THEN SplitFrom(Tail(s), << >>, IF cur = << >> THEN acc ELSE Append(acc, cur))
         ELSE SplitFrom(Tail(s), Append(cur, Head(s)), acc)

Split(s) == SplitFrom(s, << >>, << >>)

\* the texts float() / pd.to_numeric accept, over this alphabet: digit strings
IsNumeric(s) == s # << >> /\ \A i \in 1..Len(s) : s[i] \in Digits

RECURSIVE IntOf(_)
IntOf(s) == IF s = << >> THEN 0 ELSE 10 * IntOf(SubSeq(s, 1, Len(s) - 1)) + DigitVal(s[Len(s)])

-----------------------------------------------------------------------------
(* 03_crawl_pitcher.py: parse_ip *)

Returned(v) == [raised |-> FALSE, val |-> v]
ValueError  == [raised |-> TRUE,  val |-> NaN]

\* float(s) of a Python string: the value, or ValueError
float(s) == IF IsNumeric(s) THEN Returned(Num(IntOf(s))) ELSE ValueError

frac_map_1_3 == 33
frac_map_2_3 == 67

\* frac_map.get(tok, 0) with the '2/3' entry lost
frac_map_get_no_2_3(tok) ==
    IF tok = <<"1", "/", "3">> THEN frac_map_1_3 ELSE 0

\* frac_map.get(tok, 0), in hundredths
frac_map_get(tok) ==
    IF tok = <<"1", "/", "3">> THEN frac_map_1_3
    ELSE IF tok = <<"2", "/", "3">> THEN frac_map_2_3
    ELSE 0

parse_ip(s) ==
    LET t == Strip(s)
    IN  IF HasSpace(t)
        THEN LET parts == Split(t)
                 whole == float(parts[1])
             IN  IF whole.raised THEN ValueError
                 ELSE Returned(FAdd(whole.val, Rat(frac_map_get(parts[2]), 100)))
        ELSE IF t # << >> THEN float(t) ELSE Returned(Num(0))

-----------------------------------------------------------------------------
(* 04_pitcher_analysis.py: classify_role, calc_pitcher_metrics *)

\* the two values of the column '역할': '선발' (starter), '불펜' (reliever)
Starter  == "starter"
Reliever == "reliever"

FIP_CONST == Rat(320, 100)

\* classify_role with its two rules in the other order
classify_role_starter_first(row) ==
    IF FGt(row.G, Num(0)) /\ FGe(FDiv(row.IP, row.G), Num(4)) THEN Starter
    ELSE Reliever

classify_role(row) ==
    IF FGe(row.SV, Num(1)) \/ FGe(row.HLD, Num(1)) THEN Reliever
    ELSE IF FGt(row.G, Num(0)) /\ FGe(FDiv(row.IP, row.G), Num(4)) THEN Starter
    ELSE Reliever

\* a column in which nothing is replaced
replace_nothing(v) == v

\* Series.replace(0, np.nan), on one cell
replace_0_nan(v) == IF FEq(v, Num(0)) THEN NaN ELSE v

\* the columns calc_pitcher_metrics adds to one row
PitcherDerived(row) ==
    LET fip == FAdd(FDiv(FSub(FAdd(FMul(Num(13), row.HR),
                                   FMul(Num(3), FAdd(row.BB, row.HBP))),
                              FMul(Num(2), row.SO)),
                         row.IP),
                    FIP_CONST)
    IN  [ role         |-> classify_role(row),
          K9           |-> FMul(FDiv(row.SO, row.IP), Num(9)),
          BB9          |-> FMul(FDiv(row.BB, row.IP), Num(9)),
          KBB          |-> FDiv(row.SO, replace_0_nan(row.BB)),
          FIP          |-> fip,
          ERA_FIP_diff |-> FSub(row.ERA, fip),
          IP_per_G     |-> FDiv(row.IP, row.G) ]

\* record r with the fields of record e added (or overwritten)
WithColumns(r, e) ==
    [f \in (DOMAIN r) \cup (DOMAIN e) |-> IF f \in DOMAIN e THEN e[f] ELSE r[f]]

\* df = df.copy(); the derived columns are added to the copy, row by row
calc_pitcher_metrics(t) ==
    [i \in 1..Len(t) |-> WithColumns(t[i], PitcherDerived(t[i]))]

-----------------------------------------------------------------------------
(* 01_crawl_kbo.py and 03_crawl_pitcher.py: crawl_season, main *)

Hitters  == "01_crawl_kbo"
Pitchers == "03_crawl_pitcher"

YEARS == <<"2024", "2025">>
TEAM  == "SSG"

\* the thresholds of the two qualifier steps
MinPA == 200
MinIP == 15

\* pd.to_numeric(text, errors='coerce') on one cell
to_numeric(s) == IF IsNumeric(s) THEN Num(IntOf(s)) ELSE NaN

\* parse_table: the site's rows as records, 'season' being the year text
parse_table(rows, year) ==
    [i \in 1..Len(rows) |-> WithColumns(rows[i], [season |-> year])]

IsTeam(r) == r.team = TEAM

\* df[df['팀'] == 'SSG']
team_filter(t) == SelectSeq(t, IsTeam)

\* does df['IP'].apply(parse_ip) raise on some row
ip_raises(t) == \E i \in 1..Len(t) : parse_ip(t[i].IP).raised

\* crawl_season: [raised, df].  pd.DataFrame([]) has no column '팀', so an
\* empty crawl raises KeyError; parse_ip may raise ValueError (pitchers).
crawl_season(prog, rows, year) ==
    LET records == parse_table(rows, year)
        ssg     == team_filter(records)
    IN  IF records = << >> THEN [raised |-> TRUE, df |-> << >>]
        ELSE IF prog = Hitters
        THEN [raised |-> FALSE,
              df |-> [i \in 1..Len(ssg) |->
                        [ssg[i] EXCEPT !.PA = to_numeric(ssg[i].PA)]]]
        ELSE IF ip_raises(ssg) THEN [raised |-> TRUE, df |-> << >>]
        ELSE [raised |-> FALSE,
              df |-> [i \in 1..Len(ssg) |->
                        [ssg[i] EXCEPT !.IP = parse_ip(ssg[i].IP).val]]]

\* pd.concat(all_dfs, ignore_index=True)
RECURSIVE concat(_)
concat(dfs) == IF dfs = << >> THEN << >> ELSE Head(dfs) \o concat(Tail(dfs))

PAQualifies(r) == FGe(r.PA, Num(MinPA))
PAExceeds(r)   == FGt(r.PA, Num(MinPA))
IPQualifies(r) == FGe(r.IP, Num(MinIP))

\* the hitter qualifier with > in place of >=
qualify_hitters_strict(t) == SelectSeq(t, PAExceeds)

\* df_all[df_all['PA'] >= 200].copy()
qualify_hitters(t) == SelectSeq(t, PAQualifies)

\* df_all[df_all['IP'] >= 15].copy()
qualify_pitchers(t) == SelectSeq(t, IPQualifies)

\* parse_table keeps a row when it has at least this many cells
MinCells(prog) == IF prog = Hitters THEN 14 ELSE 18

\* parse_table on the rows of the page shown: rows with too few cells are
\* skipped, the others become records in row order
parse_trs(prog, trs, year) ==
    LET kept == SelectSeq(trs, LAMBDA tr : ~(tr.cells < MinCells(prog)))
    IN  [i \in 1..Len(kept) |-> [season |-> year, name |-> kept[i].name]]

\* page.query_selector('a[href*="btnNo<p>"]'): the site shows a button for
\* each of its pages
has_button(site_pages, p) == p <= Len(site_pages)

\* for page_num in range(2, 6)
range_start == 2
range_stop  == 6

\* new records put in front of the list
list_extend_front(recs, new) == new \o recs

\* records += new_records
list_extend(recs, new) == recs \o new

\* Python values of two types, and == between them: a str never equals an int
PyStr(s) == [type |-> "str", val |-> s]
PyInt(n) == [type |-> "int", val |-> n]
py_eq(a, b) == a.type = b.type /\ a.val = b.val

\* int(year) for the texts of YEARS
int_of_year(y) == CASE y = "2024" -> 2024 [] y = "2025" -> 2025

\* the summary's comparison with the season column, whose cells are the year
\* text parse_table assigned: the hitter collector compares with year, the
\* pitcher collector with int(year)
season_key(prog, y) == IF prog = Hitters THEN PyStr(y) ELSE PyInt(int_of_year(y))

\* subset = df_qualified[df_qualified['season'] == <key>]
season_subset(prog, t, y) ==
    SelectSeq(t, LAMBDA r : py_eq(PyStr(r.season), season_key(prog, y)))

-----------------------------------------------------------------------------
(* 04_pitcher_analysis.py: season tables and the FIP change of common names *)

PitcherAnalysis == "04_pitcher_analysis"

\* df_all[df_all['season'] == year].copy()
season_rows(t, year) == SelectSeq(t, LAMBDA r : r.season = year)

\* set(df['선수명'])
name_set(t) == {t[i].name : i \in 1..Len(t)}

\* df[df['선수명'].isin(names)].set_index('선수명'): the index, in row order
isin_index(t, names) ==
    LET kept == SelectSeq(t, LAMBDA r : r.name \in names)
    IN  [i \in 1..Len(kept) |-> kept[i].name]

\* d.loc[name], the index being unique
loc(t, name) == t[CHOOSE i \in 1..Len(t) : t[i].name = name]

\* the order in which pandas sorts the names
NameOrder == <<"Choi", "Kim", "Lee", "Park">>

\* the names of a set as a sequence in sorted order
RECURSIVE sorted_names(_, _)
sorted_names(names, i) ==
    IF i > Len(NameOrder) THEN << >>
    ELSE (IF NameOrder[i] \in names THEN << NameOrder[i] >> ELSE << >>)
         \o sorted_names(names, i + 1)

\* the index of left - right: the common index when both are the same
\* sequence, their sorted union otherwise
aligned_index(left, right) ==
    IF left = right THEN left
    ELSE sorted_names({left[i] : i \in 1..Len(left)}
                        \cup {right[i] : i \in 1..Len(right)}, 1)

\* d24['FIP'] - d25['FIP']: the operands the wrong way round
fip_sub_reversed(t25, t24, names) ==
    LET idx == aligned_index(isin_index(t25, names), isin_index(t24, names))
    IN  [i \in 1..Len(idx) |->
            [name |-> idx[i],
             value |-> FSub(loc(t24, idx[i]).FIP, loc(t25, idx[i]).FIP)]]

\* d25['FIP'] - d24['FIP'], both indexed by the common names
fip_sub(t25, t24, names) ==
    LET idx == aligned_index(isin_index(t25, names), isin_index(t24, names))
    IN  [i \in 1..Len(idx) |->
            [name |-> idx[i],
             value |-> FSub(loc(t25, idx[i]).FIP, loc(t24, idx[i]).FIP)]]

\* the results Series.sort_values() may give: the entries in ascending order
\* of value, missing values last; the order of equal values is not fixed
Ascending(ser) ==
    \A i, j \in 1..Len(ser) :
        i < j => \/ IsNaN(ser[j].value)
                 \/ (~IsNaN(ser[i].value) /\ FLe(ser[i].value, ser[j].value))

sort_values(ser) ==
    { out \in { [i \in 1..Len(ser) |-> ser[p[i]]] :
                  p \in { q \in [1..Len(ser) -> 1..Len(ser)] :
                             \A a, b \in 1..Len(ser) : a # b => q[a] # q[b] } } :
        Ascending(out) }

\* the legend classes of the bar colours '#003087' and '#C8102E'
Improved == "improved (FIP down)"
Declined == "declined (FIP up)"

\* the bar colours with the comparison the other way round
bar_color_flipped(v) == IF FGe(v, Num(0)) THEN Improved ELSE Declined

\* '#003087' if v <= 0 else '#C8102E'
bar_color(v) == IF FLe(v, Num(0)) THEN Improved ELSE Declined

-----------------------------------------------------------------------------
(* 02_analysis.py: the derived hitter columns, the OPS ranking, the summary *)

HitterAnalysis == "02_analysis"

\* the derivation with the singles floored at zero
HitterDerived_clamped(row) ==
    LET obp == FDiv(FAdd(row.H, FSub(row.PA, row.AB)), row.PA)
        slg == FDiv(row.TB, row.AB)
        raw == FSub(FSub(FSub(row.H, row.B2), row.B3), row.HR)
        b1  == IF FLt(raw, Num(0)) THEN Num(0) ELSE raw
    IN  [ OBP_approx  |-> obp,
          SLG         |-> slg,
          OPS         |-> FAdd(obp, slg),
          B1          |-> b1,
          wOBA_approx |-> FDiv(FAdd(FAdd(FAdd(FMul(Rat(89, 100), b1),
                                              FMul(Rat(127, 100), row.B2)),
                                         FMul(Rat(162, 100), row.B3)),
                                    FMul(Rat(210, 100), row.HR)),
                               row.PA),
          ISO         |-> FSub(slg, row.AVG) ]

\* the columns '2B', '3B' and '1B' are the fields B2, B3 and B1
\* the columns the script adds to one row of df
HitterDerived(row) ==
    LET obp == FDiv(FAdd(row.H, FSub(row.PA, row.AB)), row.PA)
        slg == FDiv(row.TB, row.AB)
        b1  == FSub(FSub(FSub(row.H, row.B2), row.B3), row.HR)
    IN  [ OBP_approx  |-> obp,
          SLG         |-> slg,
          OPS         |-> FAdd(obp, slg),
          B1          |-> b1,
          wOBA_approx |-> FDiv(FAdd(FAdd(FAdd(FMul(Rat(89, 100), b1),
                                              FMul(Rat(127, 100), row.B2)),
                                         FMul(Rat(162, 100), row.B3)),
                                    FMul(Rat(210, 100), row.HR)),
                               row.PA),
          ISO         |-> FSub(slg, row.AVG) ]

\* df after lines 43-60: every row with its derived columns
derive_hitters(t) == [i \in 1..Len(t) |-> WithColumns(t[i], HitterDerived(t[i]))]

\* the results df.sort_values('OPS', ascending=False) may give: descending
\* OPS, missing values last
DescendingOPS(t) ==
    \A i, j \in 1..Len(t) :
        i < j => \/ IsNaN(t[j].OPS)
                 \/ (~IsNaN(t[i].OPS) /\ FGe(t[i].OPS, t[j].OPS))

sort_by_ops_desc(t) ==
    { out \in { [i \in 1..Len(t) |-> t[p[i]]] :
                  p \in { q \in [1..Len(t) -> 1..Len(t)] :
                             \A a, b \in 1..Len(t) : a # b => q[a] # q[b] } } :
        DescendingOPS(out) }

-----------------------------------------------------------------------------
(* Variables a specification does not use stay at these values *)

IdleParse   == ip_str = << >> /\ ip_ret = None
IdlePages   == /\ pages = << >> /\ page_num = 0 /\ page_records = << >>
               /\ clicked = << >> /\ parsed = << >>
IdleCrawl   == /\ site = << >> /\ year_i = 0 /\ all_dfs = << >>
               /\ df_qualified = << >> /\ summary = << >> /\ IdlePages
IdleTables  == csv = << >> /\ df_all = << >>
IdleHitter  == df = << >> /\ ops_sorted = << >> /\ top_ops = None
IdlePitcher == /\ df_2024 = << >> /\ df_2025 = << >> /\ common = {}
               /\ fip_change = << >> /\ colors = << >>

-----------------------------------------------------------------------------
(* parse_ip applied to one text *)

InitParse ==
    /\ script = "parse_ip"
    /\ pc = "call"
    /\ ip_str \in Texts
    /\ ip_ret = None
    /\ IdleCrawl /\ IdleTables /\ IdleHitter /\ IdlePitcher

ParseIp ==
    /\ script = "parse_ip"
    /\ pc = "call"
    /\ ip_ret' = parse_ip(ip_str)
    /\ pc' = IF ip_ret'.raised THEN "raised" ELSE "returned"
    /\ UNCHANGED << script, ip_str, crawlVars, csv, df_all, hitterVars, pitcherVars >>

NextParse == ParseIp

SpecParse == InitParse /\ [][NextParse]_vars

-----------------------------------------------------------------------------
(* Claims about parse_ip *)

\* the whitespace-separated tokens of the claim's "innings text"
Tokens(s) == Split(s)

\* C4: every text the claim lists as empty or unparseable
Unparseable(s) ==
    \/ Tokens(s) = << >>
    \/ Len(Tokens(s)) \in {1, 2} /\ ~IsNumeric(Tokens(s)[1])

\* C4: for every input text parse_ip returns a number and never raises; the
\* empty text, a whitespace-only text and an unparseable text yield 0.0.
C4_ParseIpNeverRaises ==
    (script = "parse_ip" /\ pc # "call") =>
        /\ pc = "returned"
        /\ ~ip_ret.raised
        /\ Unparseable(ip_str) => ip_ret.val = Num(0)

\* C5: a text is well formed when its first token is a number
WellFormed(s) == Tokens(s) # << >> /\ IsNumeric(Tokens(s)[1])

\* C5: the fraction, in hundredths, the claim gives the second token
ClaimFrac(toks) ==
    IF Len(toks) >= 2 /\ toks[2] = <<"1", "/", "3">> THEN 33
    ELSE IF Len(toks) >= 2 /\ toks[2] = <<"2", "/", "3">> THEN 67
    ELSE 0

\* C5: for every well-formed innings text parse_ip returns whole + f, f being
\* 0.33 for a second token '1/3', 0.67 for '2/3' and 0 otherwise; surrounding
\* whitespace does not change the result.
C5_ParseIpValue ==
    (script = "parse_ip" /\ pc # "call" /\ WellFormed(ip_str)) =>
        /\ pc = "returned"
        /\ ip_ret = Returned(Rat(100 * IntOf(Tokens(ip_str)[1])
                                  + ClaimFrac(Tokens(ip_str)), 100))

\* C5 witness: '1 2/3' has been parsed to 1.67
C5_Witness ==
    /\ pc = "returned"
    /\ ip_str = <<"1", " ", "2", "/", "3">>
    /\ ip_ret.val = Rat(167, 100)

-----------------------------------------------------------------------------
(* calc_pitcher_metrics applied to a table of one pitcher record *)

\* innings as parse_ip writes them: whole innings plus 0, .33 or .67
InningsUpTo(w) ==
    {Rat(100 * i + f, 100) : i \in 0..w, f \in {0, frac_map_1_3, frac_map_2_3}}

PitcherRecords ==
    [ name : {"Kim"}, season : {2024},
      ERA : {NaN, Rat(450, 100)},
      G   : {Num(i) : i \in 0..MaxG},
      SV  : {Num(i) : i \in 0..MaxStat},
      HLD : {Num(i) : i \in 0..MaxStat},
      IP  : InningsUpTo(MaxWhole),
      HR  : {Num(i) : i \in 0..MaxStat},
      BB  : {Num(i) : i \in 0..MaxStat},
      HBP : {Num(i) : i \in 0..MaxStat},
      SO  : {Num(i) : i \in 0..MaxStat} ]

InitPitcherMetrics ==
    /\ script = "calc_pitcher_metrics"
    /\ pc = "call"
    /\ \E r \in PitcherRecords : csv = << r >>
    /\ df_all = << >>
    /\ IdleParse /\ IdleCrawl /\ IdleHitter /\ IdlePitcher

CalcPitcherMetrics ==
    /\ script = "calc_pitcher_metrics"
    /\ pc = "call"
    /\ df_all' = calc_pitcher_metrics(csv)
    /\ pc' = "returned"
    /\ UNCHANGED << script, csv, parseVars, crawlVars, hitterVars, pitcherVars >>

NextPitcherMetrics == CalcPitcherMetrics

SpecPitcherMetrics == InitPitcherMetrics /\ [][NextPitcherMetrics]_vars

-----------------------------------------------------------------------------
(* Claims about classify_role and calc_pitcher_metrics *)

\* the pitcher record given, and the row derived from it
PIn  == csv[1]
POut == df_all[1]
PDerived == script = "calc_pitcher_metrics" /\ pc = "returned"

\* IP / G >= 4.0 for G > 0, in integers: IP = n/d, G = g
AtLeastFourPerGame(r) == r.IP.n >= 4 * r.G.n * r.IP.d

C6_KBB ==
    PDerived =>
        /\ PIn.BB.n = 0 => (IsNaN(POut.KBB) /\ POut.KBB # Num(0))
        /\ PIn.BB.n > 0 => POut.KBB = Rat(PIn.SO.n, PIn.BB.n)
        /\ ~IsInf(POut.KBB)

\* C6 witness: strikeouts and no walk have come out as the missing value
C6_Witness ==
    PDerived /\ PIn.BB.n = 0 /\ PIn.SO.n > 0 /\ IsNaN(POut.KBB)

\* C7: IP_per_G is the missing value when G = 0, for any IP (not zero, not
\* infinite), and IP/G when G > 0.
C7_IPperG ==
    PDerived =>
        /\ PIn.G.n = 0 => IsNaN(POut.IP_per_G)
        /\ PIn.G.n > 0 => POut.IP_per_G = Rat(PIn.IP.n, PIn.IP.d * PIn.G.n)

-----------------------------------------------------------------------------
(* A collection run of either collector *)

Roster == <<"Kim", "Park", "Lee", "Choi">>

\* the cell texts the site shows in the playing-time column
PACells == {<<"1", "9", "9">>, <<"2", "0", "0">>, <<"x">>}
IPCells == {<<"1", "4", " ", "2", "/", "3">>, <<"1", "5">>, <<"x">>}

\* the tables the site can show for one season: the i-th row is Roster[i]
SiteTables(prog) ==
    UNION { { [i \in 1..n |->
                 IF prog = Hitters
                 THEN [name |-> Roster[i], team |-> c[i][1], PA |-> c[i][2]]
                 ELSE [name |-> Roster[i], team |-> c[i][1], IP |-> c[i][2]]]
              : c \in [1..n -> {TEAM, "LG"} \X
                                (IF prog = Hitters THEN PACells ELSE IPCells)] }
            : n \in 0..MaxRows }

InitCrawl ==
    /\ script \in {Hitters, Pitchers}
    /\ pc = "crawl"
    /\ site \in [{YEARS[1], YEARS[2]} -> SiteTables(script)]
    /\ year_i = 1
    /\ all_dfs = << >>
    /\ df_all = << >>
    /\ df_qualified = << >>
    /\ summary = << >>
    /\ csv = << >>
    /\ IdleParse /\ IdlePages /\ IdleHitter /\ IdlePitcher

\* one turn of main's loop: df = await crawl_season(browser, year)
CrawlSeason ==
    /\ script \in {Hitters, Pitchers}
    /\ pc = "crawl"
    /\ year_i <= Len(YEARS)
    /\ LET r == crawl_season(script, site[YEARS[year_i]], YEARS[year_i])
       IN  IF r.raised
           THEN /\ pc' = "aborted"
                /\ UNCHANGED << year_i, all_dfs >>
           ELSE /\ all_dfs' = Append(all_dfs, r.df)
                /\ year_i' = year_i + 1
                /\ pc' = IF year_i = Len(YEARS) THEN "concat" ELSE "crawl"
    /\ UNCHANGED << script, site, df_all, df_qualified, summary, csv,
                    parseVars, pageVars, hitterVars, pitcherVars >>

\* df_all = pd.concat(all_dfs, ignore_index=True)
Concat ==
    /\ script \in {Hitters, Pitchers}
    /\ pc = "concat"
    /\ df_all' = concat(all_dfs)
    /\ pc' = "filter"
    /\ UNCHANGED << script, site, year_i, all_dfs, df_qualified, summary, csv,
                    parseVars, pageVars, hitterVars, pitcherVars >>

\* the qualifier step
Qualify ==
    /\ script \in {Hitters, Pitchers}
    /\ pc = "filter"
    /\ df_qualified' = IF script = Hitters THEN qualify_hitters(df_all)
                                           ELSE qualify_pitchers(df_all)
    /\ pc' = "qualified"
    /\ UNCHANGED << script, site, year_i, all_dfs, df_all, summary, csv,
                    parseVars, pageVars, hitterVars, pitcherVars >>

\* the summary loop: for year in YEARS: subset = df_qualified[...]; print(...)
SeasonSummary ==
    /\ script \in {Hitters, Pitchers}
    /\ pc = "qualified"
    /\ summary' = [y \in {YEARS[i] : i \in 1..Len(YEARS)} |->
                      season_subset(script, df_qualified, y)]
    /\ pc' = "summarised"
    /\ UNCHANGED << script, site, year_i, all_dfs, df_all, df_qualified, csv,
                    parseVars, pageVars, hitterVars, pitcherVars >>

NextCrawl == CrawlSeason \/ Concat \/ Qualify \/ SeasonSummary

SpecCrawl == InitCrawl /\ [][NextCrawl]_vars

-----------------------------------------------------------------------------
(* Claims about the qualifier step *)

\* C2: the playing time of a record meets the threshold, in integers; a
\* missing value does not
MeetsThreshold(r) ==
    IF script = Hitters
    THEN IsNum(r.PA) /\ r.PA.n >= 200 * r.PA.d
    ELSE IsNum(r.IP) /\ r.IP.n >= 15 * r.IP.d

-----------------------------------------------------------------------------
(* A run of 04_pitcher_analysis.py on a qualified table of two seasons *)

PlayerNames == {"Kim", "Park", "Lee"}

\* the stat lines of a qualified pitcher in the table of one season; the
\* innings vary in the later season only
SeasonLines(year) ==
    [ ERA : {Rat(450, 100)}, G : {Num(10)}, SV : {Num(0)}, HLD : {Num(1)},
      IP  : IF year = 2024 THEN {Num(MinIP)} ELSE {Num(MinIP), Rat(2033, 100)},
      HR  : {Num(i) : i \in 0..MaxHR},
      BB  : {Num(3)}, HBP : {Num(1)}, SO : {Num(12)} ]

\* the rows of one season: each name at most once, in sorted order
SeasonTables(year, lines) ==
    { [i \in 1..Len(sorted_names(DOMAIN f, 1)) |->
          WithColumns(f[sorted_names(DOMAIN f, 1)[i]],
                      [name |-> sorted_names(DOMAIN f, 1)[i], season |-> year])]
        : f \in UNION {[ns -> lines] : ns \in SUBSET PlayerNames} }

InitPitcherAnalysis ==
    /\ script = PitcherAnalysis
    /\ pc = "load"
    /\ \E a \in SeasonTables(2024, SeasonLines(2024)),
          b \in SeasonTables(2025, SeasonLines(2025)) : csv = a \o b
    /\ df_all = << >>
    /\ IdleParse /\ IdleCrawl /\ IdleHitter /\ IdlePitcher

\* df_all = pd.read_csv(...); df_all = calc_pitcher_metrics(df_all)
LoadPitchers ==
    /\ script = PitcherAnalysis
    /\ pc = "load"
    /\ df_all' = calc_pitcher_metrics(csv)
    /\ pc' = "split"
    /\ UNCHANGED << script, csv, parseVars, crawlVars, hitterVars, pitcherVars >>

\* df_2024 = ...; df_2025 = ...
SplitSeasons ==
    /\ script = PitcherAnalysis
    /\ pc = "split"
    /\ df_2024' = season_rows(df_all, 2024)
    /\ df_2025' = season_rows(df_all, 2025)
    /\ pc' = "common"
    /\ UNCHANGED << script, csv, df_all, parseVars, crawlVars, hitterVars,
                    common, fip_change, colors >>

\* common = set(df_2024['선수명']) & set(df_2025['선수명']); if common:
CommonNames ==
    /\ script = PitcherAnalysis
    /\ pc = "common"
    /\ common' = name_set(df_2024) \cap name_set(df_2025)
    /\ pc' = IF common' # {} THEN "compare" ELSE "done"
    /\ UNCHANGED << script, csv, df_all, parseVars, crawlVars, hitterVars,
                    df_2024, df_2025, fip_change, colors >>

\* fip_change = (d25['FIP'] - d24['FIP']).sort_values(); colors = [...]
FipChange ==
    /\ script = PitcherAnalysis
    /\ pc = "compare"
    /\ fip_change' \in sort_values(fip_sub(df_2025, df_2024, common))
    /\ colors' = [i \in 1..Len(fip_change') |-> bar_color(fip_change'[i].value)]
    /\ pc' = "done"
    /\ UNCHANGED << script, csv, df_all, parseVars, crawlVars, hitterVars,
                    df_2024, df_2025, common >>

NextPitcherAnalysis == LoadPitchers \/ SplitSeasons \/ CommonNames \/ FipChange

SpecPitcherAnalysis == InitPitcherAnalysis /\ [][NextPitcherAnalysis]_vars

-----------------------------------------------------------------------------
(* Claims about the cross-season comparison of 04_pitcher_analysis.py *)

PCompared == script = PitcherAnalysis /\ pc = "done"

\* the qualified records of one season, as read
CsvSeason(year) == {csv[i] : i \in {j \in 1..Len(csv) : csv[j].season = year}}

CsvNames(year) == {r.name : r \in CsvSeason(year)}

\* the derived row of a name in a season
DerivedRow(year, name) ==
    CHOOSE r \in {df_all[i] : i \in 1..Len(df_all)} :
        r.season = year /\ r.name = name

\* b - a of two finite values, in integers
Minus(b, a) == Rat(b.n * a.d - a.n * b.d, a.d * b.d)

\* C3: each name occurring at most once per season, the comparison has exactly
\* one delta per name in the intersection of the two seasons' names, equal to
\* FIP_B - FIP_A of the same-named records; a name of one season only has no
\* entry and raises nothing.
C3_CommonDeltas ==
    PCompared =>
        /\ {fip_change[i].name : i \in 1..Len(fip_change)}
              = CsvNames(2024) \cap CsvNames(2025)
        /\ Len(fip_change) = Cardinality(CsvNames(2024) \cap CsvNames(2025))
        /\ \A i \in 1..Len(fip_change) :
              fip_change[i].value
                = Minus(DerivedRow(2025, fip_change[i].name).FIP,
                        DerivedRow(2024, fip_change[i].name).FIP)

\* C3 witness: two common names and a name of one season only; the deltas of
\* the two differ and neither is zero
C3_Witness ==
    /\ PCompared
    /\ Len(fip_change) = 2
    /\ CsvNames(2025) \ CsvNames(2024) # {}
    /\ fip_change[1].value # fip_change[2].value
    /\ fip_change[1].value # Num(0) /\ fip_change[2].value # Num(0)

IsLargest(i)  == \A j \in 1..Len(fip_change) : FLe(fip_change[j].value, fip_change[i].value)
IsSmallest(i) == \A j \in 1..Len(fip_change) : FLe(fip_change[i].value, fip_change[j].value)

\* C9 as stated: the deltas are in ascending order, the largest positive delta
\* is presented as the most improved entry and the most negative delta as the
\* most declined.
C9_LargestPositiveImproved ==
    PCompared =>
        /\ Ascending(fip_change)
        /\ \A i \in 1..Len(fip_change) :
              /\ (IsLargest(i) /\ FGt(fip_change[i].value, Num(0)))
                    => colors[i] = Improved
              /\ (IsSmallest(i) /\ FLt(fip_change[i].value, Num(0)))
                    => colors[i] = Declined

\* C9 amended: the deltas (FIP of season B minus FIP of season A) are in
\* ascending order; an entry is presented as improved exactly when its delta
\* is <= 0 and as declined when it is > 0, so the most improved entry is the
\* most negative delta (the first) and the most declined the largest positive
\* delta (the last).
C9_NegativeImproved ==
    PCompared =>
        /\ Ascending(fip_change)
        /\ Len(colors) = Len(fip_change)
        /\ \A i \in 1..Len(fip_change) :
              /\ colors[i] = Improved <=> FLe(fip_change[i].value, Num(0))
              /\ colors[i] = Declined <=> FGt(fip_change[i].value, Num(0))
              /\ (IsSmallest(i) /\ FLt(fip_change[i].value, Num(0)))
                    => (colors[i] = Improved /\ fip_change[i].value = fip_change[1].value)
              /\ (IsLargest(i) /\ FGt(fip_change[i].value, Num(0)))
                    => (colors[i] = Declined
                        /\ fip_change[i].value = fip_change[Len(fip_change)].value)

\* C9 witness: a negative delta first, presented as improved, and a positive
\* delta last, presented as declined
C9_Witness ==
    /\ PCompared
    /\ Len(fip_change) >= 2
    /\ FLt(fip_change[1].value, Num(0)) /\ colors[1] = Improved
    /\ FGt(fip_change[Len(fip_change)].value, Num(0))
    /\ colors[Len(fip_change)] = Declined

-----------------------------------------------------------------------------
(* The derivation of 02_analysis.py applied to a table of one hitter record *)

HitterRecords ==
    [ name : {"Kim"}, season : {2024},
      AVG : {NaN, Rat(250, 1000)},
      PA  : {Num(i) : i \in 0..MaxStat},
      AB  : {Num(i) : i \in 0..MaxStat},
      H   : {Num(i) : i \in 0..MaxStat},
      B2  : {Num(i) : i \in 0..MaxStat},
      B3  : {Num(i) : i \in 0..MaxStat},
      HR  : {Num(i) : i \in 0..MaxStat},
      TB  : {Num(i) : i \in 0..MaxStat} ]

InitHitterMetrics ==
    /\ script = HitterAnalysis
    /\ pc = "load"
    /\ \E r \in HitterRecords : csv = << r >>
    /\ df_all = << >>
    /\ IdleParse /\ IdleCrawl /\ IdleHitter /\ IdlePitcher

\* df = pd.read_csv(...); df['OBP_approx'] = ... ; ... ; df['ISO'] = ...
DeriveHitters ==
    /\ script = HitterAnalysis
    /\ pc = "load"
    /\ df' = derive_hitters(csv)
    /\ pc' = "derived"
    /\ UNCHANGED << script, csv, df_all, ops_sorted, top_ops,
                    parseVars, crawlVars, pitcherVars >>

NextHitterMetrics == DeriveHitters

SpecHitterMetrics == InitHitterMetrics /\ [][NextHitterMetrics]_vars

-----------------------------------------------------------------------------
(* A run of 02_analysis.py on a qualified table of two seasons *)

\* the stat lines of a qualified hitter
HitterLines ==
    { [ AVG |-> Rat(54, 180), PA |-> Num(MinPA), AB |-> Num(180), H |-> Num(54),
        B2 |-> Num(10), B3 |-> Num(0), HR |-> Num(h), TB |-> Num(64 + 3 * h) ]
        : h \in 0..MaxHR }

InitHitterAnalysis ==
    /\ script = HitterAnalysis
    /\ pc = "load"
    /\ \E a \in SeasonTables(2024, HitterLines),
          b \in SeasonTables(2025, HitterLines) : csv = a \o b
    /\ df_all = << >>
    /\ IdleParse /\ IdleCrawl /\ IdleHitter /\ IdlePitcher

\* print(df[[...]].sort_values('OPS', ascending=False) ...)
RankOPS ==
    /\ script = HitterAnalysis
    /\ pc = "derived"
    /\ ops_sorted' \in sort_by_ops_desc(df)
    /\ pc' = "ranked"
    /\ UNCHANGED << script, csv, df_all, df, top_ops,
                    parseVars, crawlVars, pitcherVars >>

\* top_ops = df.sort_values('OPS', ascending=False).iloc[0]; on an empty
\* table iloc[0] raises IndexError
Summary ==
    /\ script = HitterAnalysis
    /\ pc = "ranked"
    /\ IF df = << >>
       THEN pc' = "aborted" /\ UNCHANGED top_ops
       ELSE pc' = "done" /\ top_ops' = ops_sorted[1]
    /\ UNCHANGED << script, csv, df_all, df, ops_sorted,
                    parseVars, crawlVars, pitcherVars >>

NextHitterAnalysis == DeriveHitters \/ RankOPS \/ Summary

SpecHitterAnalysis == InitHitterAnalysis /\ [][NextHitterAnalysis]_vars

-----------------------------------------------------------------------------
(* Claims about 02_analysis.py *)

HIn  == csv[1]
HOut == df[1]
HDerived == script = HitterAnalysis /\ pc = "derived"

\* C8: for a hitter record with PA = 0 or AB = 0 each rate stat whose
\* denominator is zero (OBP and wOBA for PA = 0, SLG for AB = 0) and every stat
\* derived from it (OPS, ISO) is the missing value: not 0, not another number,
\* not infinite, whatever the numerators.
C8_ZeroDenominatorMissing ==
    HDerived =>
        /\ HIn.PA.n = 0 => /\ IsNaN(HOut.OBP_approx)
                           /\ IsNaN(HOut.wOBA_approx)
                           /\ IsNaN(HOut.OPS)
        /\ HIn.AB.n = 0 => /\ IsNaN(HOut.SLG)
                           /\ IsNaN(HOut.OPS)
                           /\ IsNaN(HOut.ISO)

HRanked == script = HitterAnalysis /\ pc \in {"ranked", "done"}

\* the OPS the analysis derives for a name in a season
OPSOf(year, name) ==
    (CHOOSE r \in {df[i] : i \in 1..Len(df)} : r.season = year /\ r.name = name).OPS

\* C10: the hitter analysis compares the seasons on OPS: its OPS ordering has
\* one entry per name present in both seasons, valued OPS_B - OPS_A, and none
\* for a name of one season only; the records of the two seasons are not
\* pooled into one ranking.
C10_OPSDeltas ==
    HRanked =>
        /\ {ops_sorted[i].name : i \in 1..Len(ops_sorted)}
              = CsvNames(2024) \cap CsvNames(2025)
        /\ Len(ops_sorted) = Cardinality(CsvNames(2024) \cap CsvNames(2025))
        /\ \A i \in 1..Len(ops_sorted) :
              ops_sorted[i].OPS = Minus(OPSOf(2025, ops_sorted[i].name),
                                        OPSOf(2024, ops_sorted[i].name))

\* C12: the counts of a hitter record as integers
Singles == HIn.H.n - HIn.B2.n - HIn.B3.n - HIn.HR.n
ExtraBases == HIn.B2.n + HIn.B3.n + HIn.HR.n

\* C12: the claim's numerator 0.89*1B + 1.27*2B + 1.62*3B + 2.10*HR, in
\* hundredths, with the derived 1B as it is
WobaNumerator100 ==
    89 * Singles + 127 * HIn.B2.n + 162 * HIn.B3.n + 210 * HIn.HR.n

\* C12: for every hitter record over bounded non-negative integers H, 2B, 3B,
\* HR the derived singles satisfy 1B + 2B + 3B + HR = H; when 2B + 3B + HR > H
\* the derived 1B is negative, no error is raised, nothing clamps it to zero,
\* and it enters the wOBA numerator unchanged.
C12_SinglesUnclamped ==
    HDerived =>
        /\ IsNum(HOut.B1) /\ HOut.B1.d = 1
        /\ HOut.B1.n + HIn.B2.n + HIn.B3.n + HIn.HR.n = HIn.H.n
        /\ ExtraBases > HIn.H.n => HOut.B1.n < 0
        /\ HIn.PA.n > 0 =>
              HOut.wOBA_approx = Rat(WobaNumerator100, 100 * HIn.PA.n)

\* C12 witness: an inconsistent record (H = 0 with a double) was derived with
\* a negative 1B, and that 1B pulled the wOBA of a record with a home run
\* below the home run's weight
C12_Witness ==
    /\ HDerived
    /\ ExtraBases > HIn.H.n
    /\ HOut.B1.n < 0
    /\ HIn.PA.n > 0 /\ HIn.HR.n > 0
    /\ FLt(HOut.wOBA_approx, Rat(210, 100 * HIn.PA.n))

-----------------------------------------------------------------------------
(* Claims about the table objects the derivers and the comparator are given *)

\* the table object the hitter derivation is given, as the derivation leaves
\* it: df is the object read_csv returned and df['OBP_approx'] = ... ,
\* df['ISO'] = ... assign its columns in place; no copy is taken
hitter_input == df

\* the table object calc_pitcher_metrics is given, as the call leaves it: the
\* function rebinds its parameter to df.copy() before the first assignment,
\* so the object read from the csv is not written to
pitcher_input == csv

\* the columns the two derivations add
HitterDerivedFields == {"OBP_approx", "SLG", "OPS", "B1", "wOBA_approx", "ISO"}
PitcherDerivedFields ==
    {"role", "K9", "BB9", "KBB", "FIP", "ERA_FIP_diff", "IP_per_G"}

\* no row of table t has a column of fs
Without(t, fs) == \A i \in 1..Len(t) : DOMAIN t[i] \cap fs = {}

\* C11, the part about 04_pitcher_analysis.py: the table calc_pitcher_metrics
\* was given carries none of the derived columns and the result carries them;
\* after the comparison the season tables are still the rows of their season
C11_PitcherInputsNotMutated ==
    /\ PDerived => /\ Without(pitcher_input, PitcherDerivedFields)
                   /\ ~Without(df_all, PitcherDerivedFields)
    /\ PCompared => /\ df_2024 = season_rows(df_all, 2024)
                    /\ df_2025 = season_rows(df_all, 2025)

\* C11: the hitter deriver, calc_pitcher_metrics and the cross-season
\* comparator never mutate their input: after any of them runs the table
\* object it was given has the same records and the same fields with the same
\* values as before and the derived fields appear only in the result; df_2024
\* and df_2025 are unchanged by the comparison.
C11_InputsNotMutated ==
    /\ HDerived => /\ hitter_input = csv
                   /\ Without(hitter_input, HitterDerivedFields)
    /\ C11_PitcherInputsNotMutated

-----------------------------------------------------------------------------
(* Claims about the per-season summary of the collectors *)

Summarised(prog) == script = prog /\ pc = "summarised"

\* the positions of the qualified records of one season
QualifiedOf(y) == {i \in 1..Len(df_qualified) : df_qualified[i].season = y}

\* the summary of a year selects exactly the qualified records of that season
\* and reports their number
SelectsSeason(y) ==
    /\ summary[y] = SelectSeq(df_qualified, LAMBDA r : r.season = y)
    /\ Len(summary[y]) = Cardinality(QualifiedOf(y))

\* C14, the hitter collector taken alone
C14_HitterSeasonSummary ==
    Summarised(Hitters) => \A i \in 1..Len(YEARS) : SelectsSeason(YEARS[i])

\* C14: at the end of a collection run, for each year in YEARS the per-season
\* summary of each collector selects exactly the qualified records whose
\* season field equals that year, so the count it reports is the number of
\* qualified records of that season; for the pitcher collector as for the
\* hitter collector.
C14_SeasonSummary ==
    /\ C14_HitterSeasonSummary
    /\ Summarised(Pitchers) => \A i \in 1..Len(YEARS) : SelectsSeason(YEARS[i])

-----------------------------------------------------------------------------
(* crawl_all_pages of either collector on the result pages of one season *)

\* row j of page p, with n cells
Tr(p, j, n) == [cells |-> n, name |-> << p, j >>]

\* the tables a result page may show: no row, one row with too few cells,
\* one full row, two full rows around one with too few cells
PageTables(prog, p) ==
    { << >>,
      << Tr(p, 1, MinCells(prog) - 1) >>,
      << Tr(p, 1, MinCells(prog)) >>,
      << Tr(p, 1, MinCells(prog)), Tr(p, 2, MinCells(prog) - 1),
         Tr(p, 3, MinCells(prog) + 1) >> }

\* the sites of exactly n result pages
RECURSIVE SitesOf(_, _)
SitesOf(prog, n) ==
    IF n = 0 THEN { << >> }
    ELSE { Append(s, t) : s \in SitesOf(prog, n - 1), t \in PageTables(prog, n) }

\* the sites of 1..MaxPages result pages
Sites(prog) == UNION { SitesOf(prog, n) : n \in 1..MaxPages }

InitPages ==
    /\ script \in {Hitters, Pitchers}
    /\ pc = "parse_first"
    /\ pages \in Sites(script)
    /\ page_num = 0
    /\ page_records = << >>
    /\ clicked = << >>
    /\ parsed = << >>
    /\ site = << >> /\ year_i = 1 /\ all_dfs = << >>
    /\ df_qualified = << >> /\ summary = << >>
    /\ IdleParse /\ IdleTables /\ IdleHitter /\ IdlePitcher

\* records = await parse_table(page, year), on the page shown first
ParseFirstPage ==
    /\ script \in {Hitters, Pitchers}
    /\ pc = "parse_first"
    /\ page_records' = parse_trs(script, pages[1], YEARS[year_i])
    /\ parsed' = << 1 >>
    /\ page_num' = range_start
    /\ pc' = "loop"
    /\ UNCHANGED << script, pages, clicked, site, year_i, all_dfs, df_all,
                    df_qualified, summary, csv, parseVars, hitterVars,
                    pitcherVars >>

\* one turn of the loop: query the button, click it, parse the page shown,
\* extend the list; break when the button is missing or no record was parsed
NextPage ==
    /\ script \in {Hitters, Pitchers}
    /\ pc = "loop"
    /\ page_num < range_stop
    /\ IF ~has_button(pages, page_num)
       THEN /\ pc' = "returned"
            /\ UNCHANGED << page_num, page_records, clicked, parsed >>
       ELSE LET new_records ==
                    parse_trs(script, pages[page_num], YEARS[year_i])
            IN  /\ clicked' = Append(clicked, page_num)
                /\ parsed' = Append(parsed, page_num)
                /\ IF new_records = << >>
                   THEN /\ pc' = "returned"
                        /\ UNCHANGED << page_num, page_records >>
                   ELSE /\ page_records' = list_extend(page_records, new_records)
                        /\ page_num' = page_num + 1
                        /\ pc' = "loop"
    /\ UNCHANGED << script, pages, site, year_i, all_dfs, df_all,
                    df_qualified, summary, csv, parseVars, hitterVars,
                    pitcherVars >>

\* the range is exhausted: return records
LoopExhausted ==
    /\ script \in {Hitters, Pitchers}
    /\ pc = "loop"
    /\ ~(page_num < range_stop)
    /\ pc' = "returned"
    /\ UNCHANGED << script, pageVars, site, year_i, all_dfs, df_all,
                    df_qualified, summary, csv, parseVars, hitterVars,
                    pitcherVars >>

NextPages == ParseFirstPage \/ NextPage \/ LoopExhausted

SpecPages == InitPages /\ [][NextPages]_vars

-----------------------------------------------------------------------------
(* Claims about crawl_all_pages *)

InPages == script \in {Hitters, Pitchers} /\ pc \in {"parse_first", "loop", "returned"}
PagesReturned == script \in {Hitters, Pitchers} /\ pc = "returned" /\ parsed # << >>

\* the records of result page p
RecordsOfPage(p) == parse_trs(script, pages[p], YEARS[year_i])

\* a page whose button is missing or whose parsed table is empty
StopsAt(p) == p > Len(pages) \/ RecordsOfPage(p) = << >>

\* the first such page after page 1
FirstStop == CHOOSE p \in 2..(Len(pages) + 1) :
                 StopsAt(p) /\ \A q \in 2..(p - 1) : ~StopsAt(q)

\* the claim's k: the last page reached before it, at most page 5
LastPage == IF FirstStop - 1 < 5 THEN FirstStop - 1 ELSE 5

\* the records of pages 1..k in page order
RECURSIVE RecordsUpTo(_)
RecordsUpTo(k) == IF k = 0 THEN << >> ELSE RecordsUpTo(k - 1) \o RecordsOfPage(k)

\* C13, the state part: the buttons are clicked in page order from page 2, at
\* most four of them, and never one after the stopping page; each clicked page
\* and page 1 is parsed once; the call returns the records of pages 1..k in
\* page order; a call that has not returned can take a step
C13_PagesState ==
    InPages =>
        /\ Len(clicked) <= 4
        /\ \A i \in 1..Len(clicked) :
              clicked[i] = i + 1 /\ clicked[i] <= FirstStop /\ clicked[i] <= 5
        /\ parsed \in {<< >>, << 1 >> \o clicked}
        /\ PagesReturned =>
              /\ page_records = RecordsUpTo(LastPage)
              /\ \A p \in 2..LastPage : \E i \in 1..Len(clicked) : clicked[i] = p
        /\ pc # "returned" => ENABLED NextPages

\* C13: for every sequence of result pages crawl_all_pages returns the
\* records of page 1 followed, in page order and without reordering or
\* dropping, by those of pages 2..k, k <= 5 being the last page reached before
\* the first page whose button is missing or whose parsed table is empty; no
\* later page is clicked or parsed, at most four clicks happen, and the loop
\* terminates even with more than five pages: every step of a call returns or
\* moves the loop variable up, which never passes the end of its range.
C13_CrawlAllPages ==
    /\ []C13_PagesState
    /\ [][InPages => \/ pc' = "returned"
                     \/ page_num < page_num' /\ page_num' <= range_stop]_vars

\* C13 witness: a site of more than five pages whose page 5 parses empty: four
\* clicks, the records of pages 1..4 returned, one page having given two
\* records around a skipped row
C13_Witness ==
    /\ PagesReturned
    /\ Len(pages) > 5
    /\ clicked = << 2, 3, 4, 5 >>
    /\ LastPage = 4
    /\ Len(page_records) > 4
    /\ page_records = RecordsUpTo(4)

=============================================================================
